---- MODULE Spec2Model ----
(***************************************************************************)
(* Retrieval and answer-composition core of business_brain_backend:        *)
(* SearchService (lexical scorer, answer composer), SemanticSearchService  *)
(* (semantic retriever, hybrid fusion, orchestrator) and the search        *)
(* endpoints of app/api/documents.py; the emails table and the sync and    *)
(* webhook handlers of app/api/google_gmail.py.                            *)
(*                                                                         *)
(* Text is a sequence of one-character strings.  Scores are integers:      *)
(* a similarity is given in hundredths, a relevance score is a raw count,  *)
(* and a combined score is given in thousandths.                           *)
(***************************************************************************)
EXTENDS Integers, Sequences, FiniteSets, TLC

\* documents, users: the stored tables; request, world: the parameters of the
\* request and the behaviour of the external services while it is served;
\* response: what the endpoint returns; retrieved: the retrievals the
\* orchestrator dispatched (strategy, limit, outcome, rows); calls: the
\* external calls made, in order; context: the rows handed to each
\* completion call; previous: the retrievals of the request the client has
\* sent before and now repeats; emails: the stored emails table; mailbox: the
\* ids of the messages of the connected Gmail account, latest first; handlers:
\* the position of the running sync_emails and gmail_webhook calls;
\* raw_scores, normalized_scores: keyword scores handed to the normalisation
\* of the fusion and what it made of them
\* preview_doc, preview: a row handed to _get_document_preview and the excerpt
\* it returned (<<>> until it has)
\* conversations, chat_messages: the tables of the same names; chat_reply: the
\* answer to the last message sent to a conversation
\* websocket_connections: the registry of the same name, user_id to socket;
\* sockets: every websocket's user_id and state, numbered in the order they are
\* accepted; notifications: what each notify_new_email call delivered to
\* ocr_runs: the position of the run of process_document_ocr on each file, the
\* text it extracted and how it ended; embeddings: the rows whose embedding
\* column has been written
VARIABLES documents, users, request, world, response, retrieved, calls,
          context, previous, emails, mailbox, handlers, raw_scores,
          normalized_scores, preview_doc, preview, conversations,
          chat_messages, chat_reply, websocket_connections, sockets,
          notifications, ocr_runs, embeddings

searchVars == <<documents, users, request, world, response, retrieved, calls, context,
                previous>>

gmailVars == <<emails, mailbox, handlers>>

scoreVars == <<raw_scores, normalized_scores>>

previewVars == <<preview_doc, preview>>

chatVars == <<conversations, chat_messages, chat_reply>>

wsVars == <<websocket_connections, sockets, notifications>>

ocrVars == <<ocr_runs, embeddings>>

notSearchVars == <<gmailVars, scoreVars, previewVars, chatVars, wsVars, ocrVars>>

notGmailVars == <<searchVars, scoreVars, previewVars, chatVars, wsVars, ocrVars>>

notScoreVars == <<searchVars, gmailVars, previewVars, chatVars, wsVars, ocrVars>>

notPreviewVars == <<searchVars, gmailVars, scoreVars, chatVars, wsVars, ocrVars>>

notChatVars == <<searchVars, gmailVars, scoreVars, previewVars, wsVars, ocrVars>>

notWsVars == <<searchVars, gmailVars, scoreVars, previewVars, chatVars, ocrVars>>

\* a run of process_document_ocr writes the documents table
notOcrVars == <<users, request, world, response, retrieved, calls, context, previous,
                gmailVars, scoreVars, previewVars, chatVars, wsVars>>

vars == <<searchVars, gmailVars, scoreVars, previewVars, chatVars, wsVars, ocrVars>>

----------------------------------------------------------------------------
(* Bounds *)

MaxLimit == 2

MaxLexFail == 2

MaxRawScore == 120

MaxTextLen == 203

MaxMessages == 4

MaxSockets == 3

MaxNotifications == 2

----------------------------------------------------------------------------
(* Text *)

Absent == -1

Unspecified == "unspecified"

Null == "null"

Lower(c) ==
  CASE c = "A" -> "a"
    [] c = "B" -> "b"
    [] c = "P" -> "p"
    [] c = "Q" -> "q"
    [] OTHER -> c

RECURSIVE LowerStr(_)
LowerStr(s) == IF s = <<>> THEN <<>> ELSE <<Lower(Head(s))>> \o LowerStr(Tail(s))

IsSpace(c) == c = " "

\* str.split(): the maximal runs of non-whitespace characters, in order
RECURSIVE SplitFrom(_, _)
SplitFrom(s, cur) ==
  IF s = <<>> THEN (IF cur = <<>> THEN <<>> ELSE <<cur>>)
  ELSE IF IsSpace(Head(s))
       THEN (IF cur = <<>> THEN <<>> ELSE <<cur>>) \o SplitFrom(Tail(s), <<>>)
       ELSE SplitFrom(Tail(s), Append(cur, Head(s)))

\* str.split(" "): the pieces between single spaces, empty pieces included
RECURSIVE SplitOnSpaceFrom(_, _)
SplitOnSpaceFrom(s, cur) ==
  IF s = <<>> THEN <<cur>>
  ELSE IF IsSpace(Head(s)) THEN <<cur>> \o SplitOnSpaceFrom(Tail(s), <<>>)
       ELSE SplitOnSpaceFrom(Tail(s), Append(cur, Head(s)))

SplitOnSpace(s) == SplitOnSpaceFrom(s, <<>>)

Split(s) == SplitFrom(s, <<>>)

StartsWith(s, w) == Len(w) <= Len(s) /\ SubSeq(s, 1, Len(w)) = w

\* a count that resumes the scan one character after the start of each
\* occurrence found, so that overlapping occurrences are all counted
RECURSIVE StrCountOverlapping(_, _)
StrCountOverlapping(s, w) ==
  IF w = <<>> THEN Len(s) + 1
  ELSE IF Len(s) < Len(w) THEN 0
  ELSE IF StartsWith(s, w) THEN 1 + StrCountOverlapping(Tail(s), w)
       ELSE StrCountOverlapping(Tail(s), w)

\* str.count(w): occurrences found by scanning left to right and resuming
\* the scan after the end of each occurrence found; the empty string is
\* found before every character and at the end
RECURSIVE StrCount(_, _)
StrCount(s, w) ==
  IF w = <<>> THEN Len(s) + 1
  ELSE IF Len(s) < Len(w) THEN 0
  ELSE IF StartsWith(s, w) THEN 1 + StrCount(SubSeq(s, Len(w) + 1, Len(s)), w)
       ELSE StrCount(Tail(s), w)

\* w in s
Contains(s, w) == \E i \in 1..(Len(s) - Len(w) + 1) : SubSeq(s, i, i + Len(w) - 1) = w

----------------------------------------------------------------------------
(* Stored data *)

T_Aa == <<"A", "a">>

T_aab == <<"a", "a", "b">>

T_aaaB == <<"a", "a", "a", " ", "B">>

T_ab == <<"a", "b">>

T_ba == <<"b", "a">>

T_BudgetPlan == <<"B","u","d","g","e","t"," ","P","l","a","n">>

T_BudgetDesc ==
  <<"Q","3"," ","b","u","d","g","e","t"," ","e","x","c","e","e","d","s"," ",
    "Q","2"," ","b","u","d","g","e","t"," ","b","y"," ","1","0"," ",
    "p","e","r","c","e","n","t">>

\* a text that holds the token "b" 49 times
T_b49 == [i \in 1..49 |-> "b"]

Q_empty == <<>>

Q_aa == <<"a", "a">>

Q_Ab == <<"A", " ", "b">>

Q_budget == <<"b","u","d","g","e","t">>

Q_b == <<"b">>

Q_spaces == <<" ", " ">>

Queries == {Q_empty, Q_spaces, Q_aa, Q_Ab, Q_b, Q_budget}

Emails == {"alice", "bob", "carol", "ghost"}

UsersTable ==
  {[email |-> "alice", id |-> "u1"], [email |-> "bob", id |-> "u2"],
   [email |-> "carol", id |-> "u3"]}

Doc(id, uid, type, title, description, ocr_status, ocr_text, transcription_status) ==
  [id |-> id, user_id |-> uid, document_type |-> type, title |-> title,
   description |-> description, ocr_status |-> ocr_status, ocr_text |-> ocr_text,
   transcription_status |-> transcription_status,
   similarity |-> Absent, relevance_score |-> Absent, semantic_score |-> Absent,
   keyword_score |-> Absent, combined_score |-> Absent, search_type |-> "absent"]

DocumentsTable ==
  << Doc(1, "u1", "note", T_Aa, T_aab, "completed", <<>>, "absent"),
     Doc(2, "u1", "pdf", T_ab, <<>>, "completed", T_aaaB, "absent"),
     Doc(3, "u1", "pdf", T_ab, <<>>, "failed", T_ab, "absent"),
     Doc(4, "u1", "audio", T_ba, <<>>, "pending", T_ba, "completed"),
     Doc(5, "u2", "note", T_BudgetPlan, T_BudgetDesc, "completed", <<>>, "absent"),
     Doc(6, "u3", "pdf", T_ab, <<>>, "completed", T_b49, "absent"),
     Doc(7, "u3", "pdf", T_ba, <<>>, "pending", <<>>, "absent") >>

DocIds == {DocumentsTable[i].id : i \in 1..Len(DocumentsTable)}

SimValues == {Absent, 89, 90}

\* similarities at the edges: just above the threshold, and above 1
EdgeSimValues == {Absent, 21, 150}

----------------------------------------------------------------------------
(* Python list helpers *)

Min(a, b) == IF a <= b THEN a ELSE b

Max(a, b) == IF a >= b THEN a ELSE b

\* body(v), with v evaluated once
Bind(v, body(_)) == CHOOSE r \in {body(x) : x \in {v}} : TRUE

\* seq[:n], n possibly negative
Slice(seq, n) ==
  Bind(seq, LAMBDA s :
    IF n >= 0 THEN SubSeq(s, 1, Min(n, Len(s)))
    ELSE SubSeq(s, 1, Max(Len(s) + n, 0)))

\* a descending sort that puts the later of two elements with equal keys first
SortDescTiesReversed(seq, field) ==
  Bind(seq, LAMBDA s :
    LET Before(i) == {j \in 1..Len(s) : \/ s[j][field] > s[i][field]
                                        \/ s[j][field] = s[i][field] /\ j > i}
    IN [p \in 1..Len(s) |->
          s[CHOOSE i \in 1..Len(s) : Cardinality(Before(i)) + 1 = p]])

\* list.sort(key=field, reverse=True) / sorted(..., reverse=True): stable, so
\* an element comes after the elements with a greater key and after the
\* earlier elements with the same key
SortDesc(seq, field) ==
  Bind(seq, LAMBDA s :
    LET Before(i) == {j \in 1..Len(s) : \/ s[j][field] > s[i][field]
                                        \/ s[j][field] = s[i][field] /\ j < i}
    IN [p \in 1..Len(s) |->
          s[CHOOSE i \in 1..Len(s) : Cardinality(Before(i)) + 1 = p]])

----------------------------------------------------------------------------
(* Outcomes of a service call: a value or a raised HTTPException.  trace   *)
(* lists the external calls made, in order.                                *)

Ok(docs, trace) == [ok |-> TRUE, status |-> 200, docs |-> docs, trace |-> trace]

Raise(status, trace) == [ok |-> FALSE, status |-> status, docs |-> <<>>, trace |-> trace]

UserRows(user_email) == {u \in users : u.email = user_email}

UserId(user_email) == (CHOOSE u \in UserRows(user_email) : TRUE).id

----------------------------------------------------------------------------
(* SearchService.search_documents *)

\* a scorer that searches a note in its description only
searchable_content_description_only(doc) ==
  IF doc.document_type = "note"
  THEN LowerStr(doc.description)
  ELSE IF doc.ocr_status = "completed" /\ doc.ocr_text # <<>>
       THEN LowerStr(doc.ocr_text)
       ELSE <<>>

searchable_content(doc) ==
  IF doc.document_type = "note"
  THEN LowerStr(doc.title \o <<" ">> \o doc.description)
  ELSE IF doc.ocr_status = "completed" /\ doc.ocr_text # <<>>
       THEN LowerStr(doc.ocr_text)
       ELSE <<>>

RECURSIVE WordScore(_, _)
WordScore(content, query_words) ==
  IF query_words = <<>> THEN 0
  ELSE (IF Contains(content, Head(query_words))
        THEN StrCount(content, Head(query_words)) ELSE 0)
       + WordScore(content, Tail(query_words))

relevance_score(doc, query) ==
  Bind(searchable_content(doc), LAMBDA content :
    IF content = <<>> THEN 0
    ELSE Bind(Split(LowerStr(query)), LAMBDA query_words : WordScore(content, query_words)))

\* the select without its eq('user_id', ...) filter
AllRows(user_id) == documents

\* supabase.table('documents').select('*').eq('user_id', user_id)
OwnerRows(user_id) == SelectSeq(documents, LAMBDA d : d.user_id = user_id)

matching_documents(rows, query) ==
  Bind(rows, LAMBDA rs :
    SelectSeq([i \in 1..Len(rs) |->
                 [rs[i] EXCEPT !.relevance_score = relevance_score(rs[i], query)]],
              LAMBDA d : d.relevance_score > 0))

search_documents(user_email, query, limit, fails) ==
  IF UserRows(user_email) = {} THEN Ok(<<>>, <<"lex_users">>)
  ELSE IF fails THEN Raise(500, <<"lex_users", "fetch">>)
  ELSE Ok(Slice(SortDesc(matching_documents(OwnerRows(UserId(user_email)), query),
                         "relevance_score"), limit),
          <<"lex_users", "fetch">>)

----------------------------------------------------------------------------
(* SemanticSearchService: retrieval stages *)

Threshold == 20

\* the match_documents database function: the owner's rows whose similarity
\* to the query is at least the threshold, nearest first, at most match_count
match_documents(sim, match_threshold, match_count, user_id_param) ==
  Bind(SelectSeq(documents, LAMBDA d : d.user_id = user_id_param), LAMBDA rows :
    Slice(SortDesc(SelectSeq([i \in 1..Len(rows) |->
                                [rows[i] EXCEPT !.similarity = sim[rows[i].id]]],
                             LAMBDA d : d.similarity # Absent
                                        /\ d.similarity >= match_threshold),
                   "similarity"),
          Max(match_count, 0)))

\* a retriever that swallows its failures and reports no match
semantic_search_swallow(user_email, query, limit) ==
  IF world.semFail = "users" THEN Ok(<<>>, <<"sem_users">>)
  ELSE IF UserRows(user_email) = {} THEN Ok(<<>>, <<"sem_users">>)
  ELSE IF world.semFail = "embed" THEN Ok(<<>>, <<"sem_users", "embed">>)
  ELSE IF world.semFail = "nn" \/ limit < 0 THEN Ok(<<>>, <<"sem_users", "embed", "nn">>)
  ELSE Ok(match_documents(world.sim, Threshold, limit, UserId(user_email)),
          <<"sem_users", "embed", "nn">>)

\* a negative match_count makes the database function raise
semantic_search(user_email, query, limit) ==
  IF world.semFail = "users" THEN Raise(500, <<"sem_users">>)
  ELSE IF UserRows(user_email) = {} THEN Raise(404, <<"sem_users">>)
  ELSE IF world.semFail = "embed" THEN Raise(500, <<"sem_users", "embed">>)
  ELSE IF world.semFail = "nn" \/ limit < 0 THEN Raise(500, <<"sem_users", "embed", "nn">>)
  ELSE Ok(match_documents(world.sim, Threshold, limit, UserId(user_email)),
          <<"sem_users", "embed", "nn">>)

\* n: how many item fetches the request has issued before this one
keyword_search(user_email, query, limit, n) ==
  Bind(search_documents(user_email, query, limit, (n + 1) \in world.lexFailAt), LAMBDA r :
    IF r.ok THEN r ELSE Raise(500, r.trace))

Fetches(trace) == Len(SelectSeq(trace, LAMBDA c : c = "fetch"))

----------------------------------------------------------------------------
(* SemanticSearchService.hybrid_search *)

\* weights in tenths, the normalisation denominator of the keyword score
semantic_weight == 7

keyword_weight == 3

KeywordDenominator == 100

\* a fusion without the cap of the normalised keyword score
normalized_keyword_uncapped(keyword_score) ==
  IF keyword_score > 0 THEN (keyword_score * 100) \div KeywordDenominator ELSE 0

\* min(keyword_score / 100, 1.0) if keyword_score > 0 else 0, in hundredths
normalized_keyword(keyword_score) ==
  IF keyword_score > 0 THEN Min((keyword_score * 100) \div KeywordDenominator, 100) ELSE 0

\* semantic_weight * normalized_semantic + keyword_weight * normalized_keyword,
\* in thousandths
combined_score(semantic_score, keyword_score) ==
  semantic_weight * semantic_score + keyword_weight * normalized_keyword(keyword_score)

NoScoring == raw_scores = <<>> /\ normalized_scores = <<>>

\* the normalisation step of the loop over combined_results, for two entries
normalize_keyword_scores ==
  /\ raw_scores # <<>>
  /\ normalized_scores = <<>>
  /\ normalized_scores' = [k \in 1..Len(raw_scores) |-> normalized_keyword(raw_scores[k])]
  /\ UNCHANGED <<raw_scores, notScoreVars>>

HasId(seq, id) == \E i \in 1..Len(seq) : seq[i].id = id

RowOf(seq, id) == seq[CHOOSE i \in 1..Len(seq) : seq[i].id = id]

\* the entry of combined_results made from a row of the semantic stage
from_semantic(doc, keyword_results) ==
  IF HasId(keyword_results, doc.id)
  THEN [doc EXCEPT !.semantic_score = doc.similarity,
                   !.keyword_score = RowOf(keyword_results, doc.id).relevance_score,
                   !.search_type = "hybrid"]
  ELSE [doc EXCEPT !.semantic_score = doc.similarity,
                   !.keyword_score = 0,
                   !.search_type = "semantic"]

\* the entry made from a row that only the keyword stage returned
from_keyword(doc) ==
  [doc EXCEPT !.semantic_score = 0,
              !.keyword_score = doc.relevance_score,
              !.search_type = "keyword"]

with_combined_score(doc) ==
  [doc EXCEPT !.combined_score = combined_score(doc.semantic_score, doc.keyword_score)]

\* a merge that inserts the keyword-only rows before the semantic ones
combined_results_keyword_first(semantic_results, keyword_results) ==
  Bind(SelectSeq(keyword_results, LAMBDA d : ~HasId(semantic_results, d.id)),
       LAMBDA keywordOnly :
         [i \in 1..Len(keywordOnly) |-> with_combined_score(from_keyword(keywordOnly[i]))]
         \o
         [i \in 1..Len(semantic_results) |->
            with_combined_score(from_semantic(semantic_results[i], keyword_results))])

\* the combined_results dict, in insertion order
combined_results(semantic_results, keyword_results) ==
  Bind(SelectSeq(keyword_results, LAMBDA d : ~HasId(semantic_results, d.id)),
       LAMBDA keywordOnly :
         [i \in 1..Len(semantic_results) |->
            with_combined_score(from_semantic(semantic_results[i], keyword_results))]
         \o
         [i \in 1..Len(keywordOnly) |-> with_combined_score(from_keyword(keywordOnly[i]))])

\* a fusion without the except clause: a failing stage fails the search
hybrid_search_no_fallback(user_email, query, limit, n) ==
  Bind(semantic_search(user_email, query, limit), LAMBDA sem :
    IF ~sem.ok THEN Raise(sem.status, sem.trace)
    ELSE Bind(keyword_search(user_email, query, limit, n), LAMBDA kw :
           IF ~kw.ok THEN Raise(kw.status, sem.trace \o kw.trace)
           ELSE Ok(Slice(SortDesc(combined_results(sem.docs, kw.docs), "combined_score"),
                         limit),
                   sem.trace \o kw.trace)))

\* a fusion that leaves out the rows an earlier search of the same request
\* has already returned
AlreadyReturned(id) ==
  \E p \in 1..Len(previous) : \E i \in 1..Len(previous[p].retrieved) :
    HasId(previous[p].retrieved[i].docs, id)

hybrid_search_skipping_seen(user_email, query, limit, n) ==
  Bind(semantic_search(user_email, query, limit), LAMBDA sem :
    IF ~sem.ok
    THEN Bind(keyword_search(user_email, query, limit, n), LAMBDA fb :
           [fb EXCEPT !.trace = sem.trace \o fb.trace])
    ELSE Bind(keyword_search(user_email, query, limit, n), LAMBDA kw :
           IF ~kw.ok
           THEN Bind(keyword_search(user_email, query, limit, n + 1), LAMBDA fb :
                  [fb EXCEPT !.trace = sem.trace \o kw.trace \o fb.trace])
           ELSE Ok(Slice(SortDesc(SelectSeq(combined_results(sem.docs, kw.docs),
                                            LAMBDA d : ~AlreadyReturned(d.id)),
                                  "combined_score"),
                         limit),
                   sem.trace \o kw.trace)))

hybrid_search(user_email, query, limit, n) ==
  Bind(semantic_search(user_email, query, limit), LAMBDA sem :
    IF ~sem.ok
    THEN \* except: fall back to keyword search
         Bind(keyword_search(user_email, query, limit, n), LAMBDA fb :
           [fb EXCEPT !.trace = sem.trace \o fb.trace])
    ELSE Bind(keyword_search(user_email, query, limit, n), LAMBDA kw :
           IF ~kw.ok
           THEN \* the same except clause catches a keyword failure
                Bind(keyword_search(user_email, query, limit, n + 1), LAMBDA fb :
                  [fb EXCEPT !.trace = sem.trace \o kw.trace \o fb.trace])
           ELSE Ok(Slice(SortDesc(combined_results(sem.docs, kw.docs), "combined_score"),
                         limit),
                   sem.trace \o kw.trace)))

----------------------------------------------------------------------------
(* SearchService.generate_ai_response *)

Apology == "I couldn't find any relevant documents or notes to answer your question."

Generated == "generated answer"

ContextSize == 3

\* a composer without the early return for an empty result
generate_ai_response_always_calls(query, docs) ==
  [ok |-> ~world.genFail, status |-> IF world.genFail THEN 500 ELSE 200,
   answer |-> IF world.genFail THEN "" ELSE Generated, trace |-> <<"gen">>,
   context |-> <<SubSeq(docs, 1, Min(ContextSize, Len(docs)))>>]

\* a composer that turns a failed completion into the apology string
generate_ai_response_degrades(query, docs) ==
  IF docs = <<>>
  THEN [ok |-> TRUE, status |-> 200, answer |-> Apology, trace |-> <<>>, context |-> <<>>]
  ELSE [ok |-> TRUE, status |-> 200,
        answer |-> IF world.genFail THEN Apology ELSE Generated,
        trace |-> <<"gen">>, context |-> <<SubSeq(docs, 1, Min(ContextSize, Len(docs)))>>]

\* a composer that puts every retrieved row in the prompt
generate_ai_response_whole_result(query, docs) ==
  IF docs = <<>>
  THEN [ok |-> TRUE, status |-> 200, answer |-> Apology, trace |-> <<>>, context |-> <<>>]
  ELSE [ok |-> ~world.genFail, status |-> IF world.genFail THEN 500 ELSE 200,
        answer |-> IF world.genFail THEN "" ELSE Generated, trace |-> <<"gen">>,
        context |-> <<docs>>]

generate_ai_response(query, docs) ==
  IF docs = <<>>
  THEN [ok |-> TRUE, status |-> 200, answer |-> Apology, trace |-> <<>>, context |-> <<>>]
  ELSE [ok |-> ~world.genFail, status |-> IF world.genFail THEN 500 ELSE 200,
        answer |-> IF world.genFail THEN "" ELSE Generated, trace |-> <<"gen">>,
        context |-> <<SubSeq(docs, 1, Min(ContextSize, Len(docs)))>>]

----------------------------------------------------------------------------
(* SemanticSearchService.search_and_respond *)

\* dict.get(key, default) for a numeric field
Get(doc, field, default) == IF doc[field] = Absent THEN default ELSE doc[field]

\* doc.get("combined_score", doc.get("similarity", doc.get("relevance_score", 0))),
\* in thousandths
reported_combined_score(doc) ==
  IF doc.combined_score # Absent THEN doc.combined_score
  ELSE IF doc.similarity # Absent THEN doc.similarity * 10
  ELSE IF doc.relevance_score # Absent THEN doc.relevance_score * 1000
  ELSE 0

summary(doc) ==
  [id |-> doc.id, user_id |-> doc.user_id, document_type |-> doc.document_type,
   semantic_score |-> Get(doc, "semantic_score", 0),
   keyword_score |-> Get(doc, "keyword_score", 0),
   combined_score |-> reported_combined_score(doc),
   search_type |-> IF doc.search_type = "absent" THEN "unknown" ELSE doc.search_type]

Failed(status, trace, contexts, log) ==
  [ok |-> FALSE, status |-> status, search_type |-> "", documents_found |-> 0,
   relevant_documents |-> <<>>, ai_response |-> "", trace |-> trace, contexts |-> contexts,
   log |-> log]

\* the dispatch on search_type
dispatch(user_email, query, limit, search_type, n) ==
  IF search_type = "semantic" THEN semantic_search(user_email, query, limit)
  ELSE IF search_type = "keyword" THEN keyword_search(user_email, query, limit, n)
  ELSE hybrid_search(user_email, query, limit, n)

search_and_respond(user_email, query, limit, search_type, n) ==
  Bind(dispatch(user_email, query, limit, search_type, n), LAMBDA found :
    Bind(<<[search_type |-> search_type, limit |-> limit, ok |-> found.ok,
            docs |-> found.docs]>>, LAMBDA log :
      IF ~found.ok THEN Failed(500, found.trace, <<>>, log)
      ELSE Bind(generate_ai_response(query, found.docs), LAMBDA ai :
             IF ~ai.ok THEN Failed(500, found.trace \o ai.trace, ai.context, log)
             ELSE [ok |-> TRUE, status |-> 200, search_type |-> search_type,
                   documents_found |-> Len(found.docs),
                   relevant_documents |->
                     [i \in 1..Len(found.docs) |-> summary(found.docs[i])],
                   ai_response |-> ai.answer,
                   trace |-> found.trace \o ai.trace, contexts |-> ai.context,
                   log |-> log])))

----------------------------------------------------------------------------
(* SemanticSearchService._get_document_preview *)

PreviewLen == 200

Ellipsis == <<".", ".", ".">>

Filler(n) == [i \in 1..n |-> "x"]

PreviewDocs ==
  {[document_type |-> t, description |-> Filler(n), ocr_text |-> Filler(m)] :
     t \in {"note", "pdf"}, n \in 0..MaxTextLen, m \in {0, MaxTextLen}}
  \cup
  {[document_type |-> t, description |-> Filler(n), ocr_text |-> Filler(m)] :
     t \in {"note", "pdf"}, n \in {0, MaxTextLen}, m \in 0..MaxTextLen}

\* text[:200] + "..." if len(text) > 200 else text
excerpt(text) ==
  IF Len(text) > PreviewLen THEN Slice(text, PreviewLen) \o Ellipsis ELSE text

get_document_preview(doc) ==
  IF doc.document_type = "note" THEN excerpt(doc.description)
  ELSE excerpt(doc.ocr_text)

NoPreview ==
  /\ preview_doc = [document_type |-> "note", description |-> <<>>, ocr_text |-> <<>>]
  /\ preview = <<>>

\* the "preview" entry of one per-item summary
summary_preview ==
  /\ preview = <<>>
  /\ preview' = <<get_document_preview(preview_doc)>>
  /\ UNCHANGED <<preview_doc, notPreviewVars>>

----------------------------------------------------------------------------
(* app/services/ocr_service.py: a run of process_document_ocr advances by  *)
(* one awaited call at a time; each call either works or raises.           *)

\* the rows OCR is triggered for
OcrDocIds == {3, 7}

\* the text pytesseract reads on each page of the file of a row
Pages(id) == IF id = 3 THEN <<T_ab, <<" ">>, T_Aa>> ELSE <<<<" ", " ">>>>

NoTextFound ==
  <<"N","o"," ","t","e","x","t"," ","f","o","u","n","d"," ","i","n"," ",
    "d","o","c","u","m","e","n","t">>

\* f"--- Page {i + 1} ---\n"
PageHeader(i) ==
  <<"-","-","-"," ","P","a","g","e"," ">>
    \o (IF i = 1 THEN <<"1">> ELSE IF i = 2 THEN <<"2">> ELSE <<"3">>)
    \o <<" ","-","-","-","\n">>

\* str.strip()
RECURSIVE LStrip(_)
LStrip(s) == IF s # <<>> /\ IsSpace(Head(s)) THEN LStrip(Tail(s)) ELSE s

RECURSIVE RStrip(_)
RStrip(s) ==
  IF s # <<>> /\ IsSpace(s[Len(s)]) THEN RStrip(SubSeq(s, 1, Len(s) - 1)) ELSE s

Strip(s) == RStrip(LStrip(s))

\* the entries of extracted_text for the pages from i on
RECURSIVE extracted_from(_, _)
extracted_from(pages, i) ==
  IF i > Len(pages) THEN <<>>
  ELSE IF Strip(pages[i]) # <<>>
       THEN <<PageHeader(i) \o Strip(pages[i])>> \o extracted_from(pages, i + 1)
       ELSE extracted_from(pages, i + 1)

\* "\n\n".join(extracted_text)
RECURSIVE JoinPages(_)
JoinPages(texts) ==
  IF texts = <<>> THEN <<>>
  ELSE IF Len(texts) = 1 THEN texts[1]
       ELSE Head(texts) \o <<"\n", "\n">> \o JoinPages(Tail(texts))

extract_text_from_pdf(pages) ==
  Bind(JoinPages(extracted_from(pages, 1)), LAMBDA full_text :
    IF Strip(full_text) # <<>> THEN full_text ELSE NoTextFound)

NoOcr ==
  /\ ocr_runs = [d \in OcrDocIds |->
                   [pc |-> "idle", extracted_text |-> <<>>, outcome |-> "none"]]
  /\ embeddings = {}

OcrRow(id) == documents[CHOOSE k \in 1..Len(documents) : documents[k].id = id]

\* the update of update_document_ocr_status, ocr_text given
UpdateStatusAndText(docs, id, ocr_status, ocr_text) ==
  [k \in 1..Len(docs) |->
     IF docs[k].id = id
     THEN [docs[k] EXCEPT !.ocr_status = ocr_status, !.ocr_text = ocr_text]
     ELSE docs[k]]

\* the update of update_document_ocr_status, ocr_text None
UpdateStatus(docs, id, ocr_status) ==
  [k \in 1..Len(docs) |->
     IF docs[k].id = id THEN [docs[k] EXCEPT !.ocr_status = ocr_status] ELSE docs[k]]

\* POST /documents/{document_id}/process-ocr adds the background task
trigger_ocr(d) ==
  /\ ocr_runs[d].pc = "idle"
  /\ ocr_runs' = [ocr_runs EXCEPT ![d].pc = "mark_processing"]
  /\ UNCHANGED <<documents, embeddings, notOcrVars>>

\* update_document_ocr_status(document_id, OCRStatus.PROCESSING)
ocr_mark_processing(d) ==
  /\ ocr_runs[d].pc = "mark_processing"
  /\ \E ok \in BOOLEAN :
       IF ok
       THEN /\ documents' = UpdateStatus(documents, d, "processing")
            /\ ocr_runs' = [ocr_runs EXCEPT ![d].pc = "extract"]
       ELSE /\ ocr_runs' = [ocr_runs EXCEPT ![d].pc = "mark_failed"]
            /\ UNCHANGED documents
  /\ UNCHANGED <<embeddings, notOcrVars>>

\* extract_text_from_pdf(file_path)
ocr_extract(d) ==
  /\ ocr_runs[d].pc = "extract"
  /\ \E ok \in BOOLEAN :
       IF ok
       THEN ocr_runs' = [ocr_runs EXCEPT ![d].pc = "mark_completed",
                                        ![d].extracted_text = extract_text_from_pdf(Pages(d))]
       ELSE ocr_runs' = [ocr_runs EXCEPT ![d].pc = "mark_failed"]
  /\ UNCHANGED <<documents, embeddings, notOcrVars>>

\* update_document_ocr_status(document_id, OCRStatus.COMPLETED, extracted_text)
ocr_mark_completed(d) ==
  /\ ocr_runs[d].pc = "mark_completed"
  /\ \E ok \in BOOLEAN :
       IF ok
       THEN /\ documents' = UpdateStatusAndText(documents, d, "completed",
                                                ocr_runs[d].extracted_text)
            /\ ocr_runs' = [ocr_runs EXCEPT ![d].pc = "embed"]
       ELSE /\ ocr_runs' = [ocr_runs EXCEPT ![d].pc = "mark_failed"]
            /\ UNCHANGED documents
  /\ UNCHANGED <<embeddings, notOcrVars>>

\* EmbeddingService.process_document_embedding: a failure is printed and
\* the run goes on
ocr_embed(d) ==
  /\ ocr_runs[d].pc = "embed"
  /\ \E ok \in BOOLEAN :
       embeddings' = IF ok THEN embeddings \cup {d} ELSE embeddings
  /\ ocr_runs' = [ocr_runs EXCEPT ![d].pc = "cleanup"]
  /\ UNCHANGED <<documents, notOcrVars>>

\* os.remove(file_path), then return extracted_text
ocr_cleanup(d) ==
  /\ ocr_runs[d].pc = "cleanup"
  /\ \E ok \in BOOLEAN :
       ocr_runs' = IF ok
                   THEN [ocr_runs EXCEPT ![d].pc = "done", ![d].outcome = "returned"]
                   ELSE [ocr_runs EXCEPT ![d].pc = "mark_failed"]
  /\ UNCHANGED <<documents, embeddings, notOcrVars>>

\* the except block: update_document_ocr_status(document_id, OCRStatus.FAILED)
\* with its own failure passed over, the cleanup, raise e
ocr_mark_failed(d) ==
  /\ ocr_runs[d].pc = "mark_failed"
  /\ \E ok \in BOOLEAN :
       documents' = IF ok THEN UpdateStatus(documents, d, "failed") ELSE documents
  /\ ocr_runs' = [ocr_runs EXCEPT ![d].pc = "done", ![d].outcome = "raised"]
  /\ UNCHANGED <<embeddings, notOcrVars>>

\* the steps of the run on d
process_document_ocr(d) ==
  \/ ocr_mark_processing(d)
  \/ ocr_extract(d)
  \/ ocr_mark_completed(d)
  \/ ocr_embed(d)
  \/ ocr_cleanup(d)
  \/ ocr_mark_failed(d)

----------------------------------------------------------------------------
(* app/api/google_gmail.py: websocket_endpoint and notify_new_email.        *)
(* A websocket is "new" before it is accepted, "open" while its handler     *)
(* waits in receive_text, "closing" once the client has gone and "closed"   *)
(* when the handler has seen the disconnect.                                *)

SocketIds == 1..MaxSockets

WsUsers == {"u1", "u2"}

NoSocket == 0

NoWebsocket ==
  /\ websocket_connections = <<>>
  /\ sockets = [s \in SocketIds |-> [user_id |-> "", state |-> "new"]]
  /\ notifications = <<>>

\* websocket_connections.pop(user_id, None)
Pop(connections, user_id) ==
  [u \in DOMAIN connections \ {user_id} |-> connections[u]]

\* websocket_connections[user_id] = websocket
Register(connections, user_id, s) ==
  [u \in DOMAIN connections \cup {user_id} |->
     IF u = user_id THEN s ELSE connections[u]]

\* a client opens /ws/{user_id}: accept, registration, confirmation
websocket_connect(s, user_id) ==
  /\ sockets[s].state = "new"
  /\ \A t \in SocketIds : t < s => sockets[t].state # "new"
  /\ sockets' = [sockets EXCEPT ![s] = [user_id |-> user_id, state |-> "open"]]
  /\ websocket_connections' = Register(websocket_connections, user_id, s)
  /\ UNCHANGED <<notifications, notWsVars>>

\* the client of an open websocket goes away
client_disconnect(s) ==
  /\ sockets[s].state = "open"
  /\ sockets' = [sockets EXCEPT ![s].state = "closing"]
  /\ UNCHANGED <<websocket_connections, notifications, notWsVars>>

\* receive_text raises WebSocketDisconnect in the handler of the websocket
websocket_disconnect(s) ==
  /\ sockets[s].state = "closing"
  /\ sockets' = [sockets EXCEPT ![s].state = "closed"]
  /\ websocket_connections' = Pop(websocket_connections, sockets[s].user_id)
  /\ UNCHANGED <<notifications, notWsVars>>

notify_new_email(user_id) ==
  /\ Len(notifications) < MaxNotifications
  /\ IF user_id \in DOMAIN websocket_connections
     THEN IF sockets[websocket_connections[user_id]].state = "open"
          THEN /\ notifications' =
                    Append(notifications,
                           [user_id |-> user_id, socket |-> websocket_connections[user_id]])
               /\ UNCHANGED websocket_connections
          ELSE /\ notifications' =
                    Append(notifications, [user_id |-> user_id, socket |-> NoSocket])
               /\ websocket_connections' = Pop(websocket_connections, user_id)
     ELSE /\ notifications' =
               Append(notifications, [user_id |-> user_id, socket |-> NoSocket])
          /\ UNCHANGED websocket_connections
  /\ UNCHANGED <<sockets, notWsVars>>

----------------------------------------------------------------------------
(* app/api/google_gmail.py: the emails table and the handlers that fill it. *)
(* A handler advances by one request to the database at a time.            *)

MaxRuns == 2

MaxMailbox == 2

GmailIds == {"m1", "m2"}

HandlerNames == {"sync", "webhook"}

Idle == [pc |-> "idle", todo |-> <<>>, runs |-> 0]

NoGmailActivity ==
  /\ emails = <<>>
  /\ mailbox = <<>>
  /\ handlers = [h \in HandlerNames |-> Idle]

EmailRow(id, gmail_id) == [id |-> id, gmail_id |-> gmail_id, user_id |-> "u1"]

\* supabase.table('emails').select('id').eq('gmail_id', gmail_id)
existing(gmail_id) == SelectSeq(emails, LAMBDA r : r.gmail_id = gmail_id)

\* service.users().messages().list(userId="me", maxResults=max_results)
messages(max_results) == SubSeq(mailbox, 1, Min(max_results, Len(mailbox)))

\* the handler goes on after save_email_to_db has returned
Returned(h) ==
  LET rest == Tail(handlers[h].todo)
  IN [handlers EXCEPT ![h].todo = rest,
                      ![h].pc = IF rest = <<>> THEN "idle" ELSE "select"]

\* POST /gmail/sync: list the latest messages, then save them one by one
sync_emails(max_results) ==
  /\ handlers["sync"].pc = "idle"
  /\ handlers["sync"].runs < MaxRuns
  /\ handlers' = [handlers EXCEPT
                    !["sync"].runs = @ + 1,
                    !["sync"].todo = messages(max_results),
                    !["sync"].pc = IF messages(max_results) = <<>> THEN "idle"
                                   ELSE "select"]
  /\ UNCHANGED <<emails, mailbox, notGmailVars>>

\* POST /gmail/webhook: take the latest message, answer already_exists if it
\* is stored, otherwise fetch and save it
gmail_webhook ==
  /\ handlers["webhook"].pc = "idle"
  /\ handlers["webhook"].runs < MaxRuns
  /\ handlers' = [handlers EXCEPT
                    !["webhook"].runs = @ + 1,
                    !["webhook"].todo =
                      IF messages(1) = <<>> \/ existing(messages(1)[1]) # <<>>
                      THEN <<>> ELSE messages(1),
                    !["webhook"].pc =
                      IF messages(1) = <<>> \/ existing(messages(1)[1]) # <<>>
                      THEN "idle" ELSE "select"]
  /\ UNCHANGED <<emails, mailbox, notGmailVars>>

\* save_email_to_db, first request: the select of the stored row; a stored
\* row is returned, a raised exception makes the call return None
save_email_to_db_select(h) ==
  /\ handlers[h].pc = "select"
  /\ \E raises \in BOOLEAN :
       handlers' = IF raises \/ existing(Head(handlers[h].todo)) # <<>>
                   THEN Returned(h)
                   ELSE [handlers EXCEPT ![h].pc = "insert"]
  /\ UNCHANGED <<emails, mailbox, notGmailVars>>

\* save_email_to_db, second request: the insert
save_email_to_db_insert(h) ==
  /\ handlers[h].pc = "insert"
  /\ \E raises \in BOOLEAN :
       emails' = IF raises THEN emails
                 ELSE Append(emails, EmailRow(Len(emails) + 1, Head(handlers[h].todo)))
  /\ handlers' = Returned(h)
  /\ UNCHANGED <<mailbox, notGmailVars>>

-----
(* Requests, external behaviour and the endpoints of app/api/documents.py *)

DefaultLimit == 10

CompareDefaultLimit == 5

SearchTypes == {"semantic", "keyword", "hybrid"}

\* a limit parameter: <<>> when the request leaves it out, <<n>> when it gives n
Limits == {<<>>} \cup {<<n>> : n \in -1..MaxLimit}

Requests ==
  [user_email : Emails, query : Queries, limit : Limits,
   search_type : SearchTypes \cup {Unspecified, Null}]

\* semFail: the step of the semantic stage that raises on every call of the
\* request; lexFailAt: the item fetches of the request that raise; genFail:
\* the completion call raises; sim: the similarity the nearest-neighbour
\* service computes for each stored row (Absent: the row has no embedding)
OwnerOf(id) == (CHOOSE i \in 1..Len(DocumentsTable) : DocumentsTable[i].id = id)

FixedSim == CHOOSE v \in SimValues : \A w \in SimValues : v >= w

\* While every service is up the similarities of the requesting owner's rows
\* are enumerated and every other row is near the query; when a service fails
\* either every row is near the query or none has an embedding.
\* The rows of the owner "carol" take the similarities at the edges, the
\* rows of the other owners the ordinary ones.
OwnedIds(user_email) ==
  {d \in DocIds : \E u \in UsersTable : /\ u.email = user_email
                                         /\ u.id = DocumentsTable[OwnerOf(d)].user_id}

SimValuesFor(user_email) == IF user_email = "carol" THEN EdgeSimValues ELSE SimValues

OwnerSims(req) ==
  {[d \in DocIds |-> IF d \in OwnedIds(req.user_email) THEN f[d] ELSE FixedSim] :
     f \in [OwnedIds(req.user_email) -> SimValuesFor(req.user_email)]}

Faults ==
  {f \in [semFail : {"none", "users", "embed", "nn"},
          lexFailAt : SUBSET (1..MaxLexFail),
          genFail : BOOLEAN] :
     f.semFail # "none" \/ f.lexFailAt # {} \/ f.genFail}

WorldsFor(req) ==
  {[semFail |-> "none", lexFailAt |-> {}, genFail |-> FALSE, sim |-> s] :
     s \in OwnerSims(req)}
  \cup
  {[semFail |-> f.semFail, lexFailAt |-> f.lexFailAt, genFail |-> f.genFail, sim |-> s] :
     f \in Faults, s \in {[d \in DocIds |-> FixedSim], [d \in DocIds |-> Absent]}}

Pending == [endpoint |-> "", outcome |-> "pending", status |-> 0, results |-> <<>>]

----------------------------------------------------------------------------
(* app/services/chat_service.py, app/services/conversation_service.py *)

NewConversation ==
  <<"N","e","w"," ","C","o","n","v","e","r","s","a","t","i","o","n">>

DocumentSearch ==
  <<"D","o","c","u","m","e","n","t"," ","S","e","a","r","c","h">>

Q_bq == <<"b", "?">>

ConversationIds == {"c1", "c2", "c9"}

ConversationsTable ==
  [c \in {"c1", "c2"} |->
     IF c = "c1" THEN [user_id |-> "u1", title |-> NewConversation]
     ELSE [user_id |-> "u2", title |-> T_Aa]]

ChatContents == {Q_aa, Q_bq}

ChatLimit == 10

NoChat ==
  /\ conversations = ConversationsTable
  /\ chat_messages = <<>>
  /\ chat_reply = [status |-> 0, conversation_id |-> ""]

\* the external services of a conversation: all working, or failing in one of
\* the ways a search can fail, every stored row being near the query
ChatWorlds ==
  {[semFail |-> "none", lexFailAt |-> {}, genFail |-> FALSE,
    sim |-> [d \in DocIds |-> FixedSim]]}
  \cup
  {[semFail |-> f.semFail, lexFailAt |-> f.lexFailAt, genFail |-> f.genFail,
    sim |-> [d \in DocIds |-> FixedSim]] : f \in Faults}

\* ConversationService.get_conversation_by_id returns a row
ConversationFound(conversation_id, user_email) ==
  /\ UserRows(user_email) # {}
  /\ conversation_id \in DOMAIN conversations
  /\ conversations[conversation_id].user_id = UserId(user_email)

\* the row ConversationService.save_message inserts; the content of a user
\* message is its search_query, the content of an assistant message is the
\* ai_response
message_record(conversation_id, user_email, role, search_query, search_type, ai_response) ==
  [conversation_id |-> conversation_id, user_id |-> UserId(user_email), role |-> role,
   search_query |-> search_query, search_type |-> search_type,
   ai_response |-> ai_response]

\* every path of _enhance_response_with_context returns original_response
enhance_response_with_context(original_response) == original_response

Upper(c) ==
  CASE c = "a" -> "A"
    [] c = "b" -> "B"
    [] OTHER -> c

\* str.title() on one word
TitleWord(w) == IF w = <<>> THEN <<>> ELSE <<Upper(Head(w))>> \o LowerStr(Tail(w))

\* ' '.join(words).title()
RECURSIVE JoinTitle(_)
JoinTitle(words) ==
  IF words = <<>> THEN <<>>
  ELSE IF Len(words) = 1 THEN TitleWord(words[1])
       ELSE TitleWord(Head(words)) \o <<" ">> \o JoinTitle(Tail(words))

\* re.sub(r'[^\w\s]', '', query)
cleaned_query(query) == SelectSeq(query, LAMBDA c : c # "?")

generate_title_from_query(query) ==
  Bind(Split(cleaned_query(query)), LAMBDA words :
    Bind(IF Len(words) <= 3 THEN JoinTitle(words)
         ELSE IF Len(words) <= 6 THEN JoinTitle(SubSeq(words, 1, 4)) \o Ellipsis
              ELSE JoinTitle(SubSeq(words, 1, 3)) \o Ellipsis, LAMBDA title :
      IF title = <<>> \/ title = Ellipsis THEN DocumentSearch
      ELSE IF Len(title) > 50 THEN SubSeq(title, 1, 47) \o Ellipsis
           ELSE title))

\* POST /conversations/{conversation_id}/messages
send_message_to_conversation(conversation_id, user_email, content, search_type) ==
  /\ Len(chat_messages) + 2 <= MaxMessages
  /\ IF ~ConversationFound(conversation_id, user_email)
     THEN /\ chat_reply' = [status |-> 404, conversation_id |-> conversation_id]
          /\ UNCHANGED <<conversations, chat_messages>>
     ELSE \E stored \in {Append(chat_messages,
                                 message_record(conversation_id, user_email, "user",
                                                content, search_type, ""))} :
          \E r \in {search_and_respond(user_email, content, ChatLimit, search_type, 0)} :
            IF ~r.ok
            THEN /\ chat_messages' = stored
                 /\ chat_reply' = [status |-> r.status, conversation_id |-> conversation_id]
                 /\ UNCHANGED conversations
            ELSE /\ chat_messages' =
                      Append(stored,
                             message_record(conversation_id, user_email, "assistant",
                                            content, search_type,
                                            enhance_response_with_context(r.ai_response)))
                 /\ conversations' =
                      IF conversations[conversation_id].title = NewConversation
                      THEN [conversations EXCEPT
                              ![conversation_id].title = generate_title_from_query(content)]
                      ELSE conversations
                 /\ chat_reply' = [status |-> 200, conversation_id |-> conversation_id]
  /\ UNCHANGED notChatVars

Result(r) ==
  [search_type |-> r.search_type, documents_found |-> r.documents_found,
   relevant_documents |-> r.relevant_documents, ai_response |-> r.ai_response]

Init ==
  /\ NoOcr
  /\ NoWebsocket
  /\ NoChat
  /\ documents = DocumentsTable
  /\ users = UsersTable
  /\ request \in Requests
  /\ world \in WorldsFor(request)
  /\ response = Pending
  /\ retrieved = <<>>
  /\ calls = <<>>
  /\ context = <<>>
  /\ previous = <<>>
  /\ NoGmailActivity
  /\ NoScoring
  /\ NoPreview

Respond(endpoint, r) ==
  /\ response' = IF r.ok
                 THEN [endpoint |-> endpoint, outcome |-> "ok", status |-> 200,
                       results |-> <<Result(r)>>]
                 ELSE [endpoint |-> endpoint, outcome |-> "error", status |-> r.status,
                       results |-> <<>>]
  /\ retrieved' = r.log
  /\ calls' = r.trace
  /\ context' = r.contexts
  /\ UNCHANGED <<documents, users, request, world, previous, notSearchVars>>

\* limit or 10, on a body whose limit defaults to 10
post_limit ==
  IF request.limit = <<>> \/ request.limit = <<0>> THEN DefaultLimit ELSE request.limit[1]

\* search_type or "hybrid", on a body whose search_type defaults to "semantic"
post_search_type ==
  IF request.search_type = Unspecified THEN "semantic"
  ELSE IF request.search_type = Null THEN "hybrid"
  ELSE request.search_type

\* POST /documents/search with a DocumentSearchRequest body
search_documents_post ==
  /\ response.outcome = "pending"
  /\ \E r \in {search_and_respond(request.user_email, request.query, post_limit,
                                  post_search_type, 0)} :
       Respond("post", r)

get_limit == IF request.limit = <<>> THEN DefaultLimit ELSE request.limit[1]

get_search_type ==
  IF request.search_type = Unspecified THEN "hybrid" ELSE request.search_type

\* GET /documents/search
search_documents_get ==
  /\ response.outcome = "pending"
  /\ request.search_type # Null
  /\ \E r \in {search_and_respond(request.user_email, request.query, get_limit,
                                  get_search_type, 0)} :
       Respond("get", r)

compare_limit == IF request.limit = <<>> THEN CompareDefaultLimit ELSE request.limit[1]

\* GET /documents/search/compare: the three searches run in one try block
compare_search_types ==
  /\ response.outcome = "pending"
  /\ \E s \in {search_and_respond(request.user_email, request.query, compare_limit,
                                  "semantic", 0)} :
     \E k \in {IF s.ok
               THEN search_and_respond(request.user_email, request.query, compare_limit,
                                       "keyword", Fetches(s.trace))
               ELSE s} :
     \E h \in {IF s.ok /\ k.ok
               THEN search_and_respond(request.user_email, request.query, compare_limit,
                                       "hybrid", Fetches(s.trace \o k.trace))
               ELSE k} :
       /\ response' =
            IF ~s.ok \/ ~k.ok \/ ~h.ok
            THEN [endpoint |-> "compare", outcome |-> "error", status |-> 500,
                  results |-> <<>>]
            ELSE [endpoint |-> "compare", outcome |-> "ok", status |-> 200,
                  results |-> <<Result(s), Result(k), Result(h)>>]
       /\ retrieved' = IF ~s.ok THEN s.log
                       ELSE IF ~k.ok THEN s.log \o k.log
                       ELSE s.log \o k.log \o h.log
       /\ calls' = IF ~s.ok THEN s.trace
                   ELSE IF ~k.ok THEN s.trace \o k.trace
                   ELSE s.trace \o k.trace \o h.trace
       /\ context' = IF ~s.ok THEN s.contexts
                     ELSE IF ~k.ok THEN s.contexts \o k.contexts
                     ELSE s.contexts \o k.contexts \o h.contexts
       /\ UNCHANGED <<documents, users, request, world, previous, notSearchVars>>

Next ==
  \/ search_documents_post
  \/ search_documents_get
  \/ compare_search_types

Spec == Init /\ [][Next]_vars

\* the client sends the request it has been answered once more, against the
\* same stored rows and the same behaviour of the external services
repeat_request ==
  /\ response.outcome # "pending"
  /\ previous = <<>>
  /\ previous' = <<[endpoint |-> response.endpoint, retrieved |-> retrieved]>>
  /\ response' = Pending
  /\ retrieved' = <<>>
  /\ calls' = <<>>
  /\ context' = <<>>
  /\ UNCHANGED <<documents, users, request, world, notSearchVars>>

InitRepeat == Init /\ request.search_type \in {"hybrid", Unspecified}

NextRepeat == Next \/ repeat_request

SpecRepeat == InitRepeat /\ [][NextRepeat]_vars

\* no search request is being served
NoSearchActivity ==
  /\ documents = DocumentsTable
  /\ users = UsersTable
  /\ request = [user_email |-> "alice", query |-> Q_empty, limit |-> <<>>,
                search_type |-> Unspecified]
  /\ world = [semFail |-> "none", lexFailAt |-> {}, genFail |-> FALSE,
              sim |-> [d \in DocIds |-> Absent]]
  /\ response = Pending
  /\ retrieved = <<>>
  /\ calls = <<>>
  /\ context = <<>>
  /\ previous = <<>>

Mailboxes ==
  {<<>>} \cup {<<g>> : g \in GmailIds}
         \cup {m \in {<<g, h>> : g \in GmailIds, h \in GmailIds} : m[1] # m[2]}

GmailInit ==
  /\ NoOcr
  /\ NoWebsocket
  /\ NoChat
  /\ NoSearchActivity
  /\ NoPreview
  /\ NoScoring
  /\ mailbox \in {m \in Mailboxes : Len(m) <= MaxMailbox}
  /\ emails \in {<<>>} \cup {<<EmailRow(1, g)>> : g \in GmailIds}
  /\ handlers = [h \in HandlerNames |-> Idle]

GmailNext ==
  \/ \E max_results \in 1..MaxMailbox : sync_emails(max_results)
  \/ gmail_webhook
  \/ \E h \in HandlerNames : save_email_to_db_select(h)
  \/ \E h \in HandlerNames : save_email_to_db_insert(h)

GmailSpec == GmailInit /\ [][GmailNext]_vars

ScoreInit ==
  /\ NoOcr
  /\ NoWebsocket
  /\ NoChat
  /\ NoSearchActivity
  /\ NoPreview
  /\ NoGmailActivity
  /\ raw_scores \in (0..MaxRawScore) \X (0..MaxRawScore)
  /\ normalized_scores = <<>>

ScoreSpec == ScoreInit /\ [][normalize_keyword_scores]_vars

PreviewInit ==
  /\ NoOcr
  /\ NoWebsocket
  /\ NoChat
  /\ NoSearchActivity
  /\ NoGmailActivity
  /\ NoScoring
  /\ preview_doc \in PreviewDocs
  /\ preview = <<>>

PreviewSpec == PreviewInit /\ [][summary_preview]_vars

ChatInit ==
  /\ NoOcr
  /\ NoWebsocket
  /\ documents = DocumentsTable
  /\ users = UsersTable
  /\ request = [user_email |-> "alice", query |-> Q_empty, limit |-> <<>>,
                search_type |-> Unspecified]
  /\ world \in ChatWorlds
  /\ response = Pending
  /\ retrieved = <<>>
  /\ calls = <<>>
  /\ context = <<>>
  /\ previous = <<>>
  /\ NoGmailActivity
  /\ NoScoring
  /\ NoPreview
  /\ NoChat

ChatNext ==
  \E conversation_id \in ConversationIds, user_email \in {"alice", "bob", "ghost"},
     content \in ChatContents, search_type \in SearchTypes :
    send_message_to_conversation(conversation_id, user_email, content, search_type)

ChatSpec == ChatInit /\ [][ChatNext]_vars

WsInit ==
  /\ NoOcr
  /\ NoSearchActivity
  /\ NoGmailActivity
  /\ NoScoring
  /\ NoPreview
  /\ NoChat
  /\ NoWebsocket

WsNext ==
  \/ \E s \in SocketIds, user_id \in WsUsers : websocket_connect(s, user_id)
  \/ \E s \in SocketIds : client_disconnect(s)
  \/ \E s \in SocketIds : websocket_disconnect(s)
  \/ \E user_id \in WsUsers : notify_new_email(user_id)

WsSpec == WsInit /\ [][WsNext]_vars

OcrInit ==
  /\ NoSearchActivity
  /\ NoGmailActivity
  /\ NoScoring
  /\ NoPreview
  /\ NoChat
  /\ NoWebsocket
  /\ NoOcr

OcrNext ==
  \/ \E d \in OcrDocIds : trigger_ocr(d)
  \/ \E d \in OcrDocIds : ocr_mark_processing(d)
  \/ \E d \in OcrDocIds : ocr_extract(d)
  \/ \E d \in OcrDocIds : ocr_mark_completed(d)
  \/ \E d \in OcrDocIds : ocr_embed(d)
  \/ \E d \in OcrDocIds : ocr_cleanup(d)
  \/ \E d \in OcrDocIds : ocr_mark_failed(d)

\* a background task that has been started runs on to its end
OcrFairSpec ==
  OcrInit /\ [][OcrNext]_vars /\ \A d \in OcrDocIds : WF_vars(process_document_ocr(d))

-----
(* Properties *)

Done == response.outcome # "pending"

Single == response.endpoint \in {"get", "post"}

SemanticStageDown == world.semFail \in {"embed", "nn"}

LexicalStageUp == world.lexFailAt = {}

Items == IF response.results = <<>> THEN <<>> ELSE response.results[1].relevant_documents

\* C1: a hybrid search whose semantic stage fails (embedding or
\* nearest-neighbour call) does not fail; it retrieves exactly the ordered list
\* that keyword search returns for the same owner, query and limit.
HybridFallbackEquivalence ==
  \A i \in 1..Len(retrieved) :
    (retrieved[i].search_type = "hybrid" /\ SemanticStageDown /\ LexicalStageUp)
      => /\ retrieved[i].ok
         /\ retrieved[i].docs =
              search_documents(request.user_email, request.query, retrieved[i].limit,
                               FALSE).docs

HybridFallbackWitness ==
  /\ Single /\ SemanticStageDown /\ LexicalStageUp
  /\ retrieved[1].search_type = "hybrid"
  /\ retrieved[1].ok
  /\ Len(retrieved[1].docs) = 2
  /\ "fetch" \in {calls[j] : j \in 1..Len(calls)}

\* C2: compare runs its three strategies independently; with the semantic
\* backend down it still returns the keyword and the hybrid result and reports
\* a failure for the semantic strategy only.
CompareIsolatesFailures ==
  (response.endpoint = "compare" /\ SemanticStageDown /\ LexicalStageUp /\ ~world.genFail)
    => /\ response.outcome = "ok"
       /\ \E j \in 1..Len(response.results) : response.results[j].search_type = "keyword"
       /\ \E j \in 1..Len(response.results) : response.results[j].search_type = "hybrid"

\* C3: a semantic search whose semantic stage fails ends in an error: no
\* result is returned and the lexical stage is not consulted.
SemanticFailurePropagates ==
  \A i \in 1..Len(retrieved) :
    (retrieved[i].search_type = "semantic" /\ world.semFail # "none")
      => /\ response.outcome = "error"
         /\ response.results = <<>>
         /\ "fetch" \notin {calls[j] : j \in 1..Len(calls)}

SemanticFailureWitness ==
  /\ Single /\ world.semFail = "nn"
  /\ retrieved[1].search_type = "semantic"
  /\ response.outcome = "error"
  /\ calls = <<"sem_users", "embed", "nn">>

\* C4: every item of a hybrid search result has combined_score
\* 0.7 * normalized_semantic + 0.3 * normalized_lexical, the semantic term
\* being the item's similarity if the semantic stage returned it and 0
\* otherwise, the lexical term min(lexical_score / 100, 1.0) if the lexical
\* stage returned it and 0 otherwise.
HybridCombinedScoreFormula ==
  (Single /\ response.outcome = "ok" /\ retrieved[1].search_type = "hybrid"
     /\ LexicalStageUp)
    => LET sem == semantic_search(request.user_email, request.query, retrieved[1].limit)
           lex == search_documents(request.user_email, request.query, retrieved[1].limit,
                                   FALSE)
       IN \A j \in 1..Len(Items) :
            LET id == Items[j].id
                ns == IF sem.ok /\ HasId(sem.docs, id)
                      THEN RowOf(sem.docs, id).similarity ELSE 0
                nl == IF HasId(lex.docs, id)
                      THEN Min(RowOf(lex.docs, id).relevance_score, 100) ELSE 0
            IN Items[j].combined_score = 7 * ns + 3 * nl

\* C5: the lexical score of an item is the sum, over the whitespace-delimited
\* tokens of the lowercased query, of the number of occurrences of the token
\* as a substring of the item's lowercased searchable text, and no item with
\* score 0 is in a keyword result.
Occurrences(s, w) ==
  Cardinality({i \in 1..(Len(s) - Len(w) + 1) : SubSeq(s, i, i + Len(w) - 1) = w})

RECURSIVE OccurrenceSum(_, _)
OccurrenceSum(text, tokens) ==
  IF tokens = <<>> THEN 0
  ELSE Occurrences(text, Head(tokens)) + OccurrenceSum(text, Tail(tokens))

\* the retrieved rows that carry a lexical score
LexicalRows ==
  UNION {{retrieved[i].docs[j] :
            j \in {k \in 1..Len(retrieved[i].docs) :
                     retrieved[i].docs[k].relevance_score # Absent}} :
         i \in 1..Len(retrieved)}

LexicalScoreIsOccurrenceSum ==
  \A d \in LexicalRows :
    /\ d.relevance_score = OccurrenceSum(searchable_content(d), Split(LowerStr(request.query)))
    /\ d.relevance_score > 0

\* C5 as amended: the occurrences counted for a token are non-overlapping ones
\* (as many pairwise disjoint occurrences as the text holds).
\* MostDisjoint(s, w, k)[j + 1], for j in 0..k, is the largest number of
\* pairwise disjoint occurrences of w within the first j characters of s: the
\* best over leaving out, or taking, an occurrence that ends at character j.
RECURSIVE MostDisjoint(_, _, _)
MostDisjoint(s, w, k) ==
  IF k = 0 THEN <<0>>
  ELSE Bind(MostDisjoint(s, w, k - 1), LAMBDA best :
         Append(best,
                IF k >= Len(w) /\ SubSeq(s, k - Len(w) + 1, k) = w
                  /\ best[k - Len(w) + 1] + 1 > best[k]
                THEN best[k - Len(w) + 1] + 1
                ELSE best[k]))

DisjointOccurrences(s, w) == MostDisjoint(s, w, Len(s))[Len(s) + 1]

RECURSIVE DisjointOccurrenceSum(_, _)
DisjointOccurrenceSum(text, tokens) ==
  IF tokens = <<>> THEN 0
  ELSE DisjointOccurrences(text, Head(tokens)) + DisjointOccurrenceSum(text, Tail(tokens))

LexicalScoreIsDisjointOccurrenceSum ==
  \A d \in LexicalRows :
    /\ d.relevance_score =
         DisjointOccurrenceSum(searchable_content(d), Split(LowerStr(request.query)))
    /\ d.relevance_score > 0

LexicalScoreWitness ==
  /\ Single /\ retrieved[1].search_type = "keyword" /\ retrieved[1].ok
  /\ request.query = Q_aa
  /\ \E j \in 1..Len(retrieved[1].docs) :
       /\ retrieved[1].docs[j].id = 2
       /\ retrieved[1].docs[j].relevance_score = 1
  /\ \E j \in 1..Len(retrieved[1].docs) :
       /\ retrieved[1].docs[j].id = 1
       /\ retrieved[1].docs[j].relevance_score = 2

\* C6: a search that retrieves no item answers with the fixed apology and an
\* empty item list, without calling the completion service.
NoContentSkipsGenerator ==
  (Single /\ Len(retrieved) = 1 /\ retrieved[1].ok /\ retrieved[1].docs = <<>>)
    => /\ response.outcome = "ok"
       /\ response.results[1].relevant_documents = <<>>
       /\ response.results[1].documents_found = 0
       /\ response.results[1].ai_response = Apology
       /\ "gen" \notin {calls[j] : j \in 1..Len(calls)}
       /\ context = <<>>

\* no stored row of the owner holds a query token and the nearest-neighbour
\* service has nothing above the threshold
NothingToRetrieve ==
  /\ \A k \in 1..Len(documents) :
       documents[k].user_id = "u1" => relevance_score(documents[k], request.query) = 0
  /\ \A k \in 1..Len(documents) :
       documents[k].user_id = "u1" => world.sim[documents[k].id] = Absent

NoContentWitness ==
  /\ response.endpoint = "get" /\ request.user_email = "alice"
  /\ request.query = Q_budget /\ request.limit = <<>>
  /\ retrieved[1].search_type = "hybrid"
  /\ world.semFail = "none" /\ world.genFail
  /\ NothingToRetrieve
  /\ calls = <<"sem_users", "embed", "nn", "lex_users", "fetch">>
  /\ response.outcome = "ok"
  /\ response.results[1].ai_response = Apology

\* C7: when items were retrieved and the completion call fails, the search
\* ends in a server error and returns no result, whatever the strategy.
CompositionFailurePropagates ==
  (Done /\ world.genFail
     /\ \E i \in 1..Len(retrieved) : retrieved[i].ok /\ retrieved[i].docs # <<>>)
    => /\ response.outcome = "error"
       /\ response.status = 500
       /\ response.results = <<>>

CompositionFailureWitness ==
  /\ Single /\ world.genFail
  /\ retrieved[1].ok /\ Len(retrieved[1].docs) >= 1
  /\ calls[Len(calls)] = "gen"
  /\ response.outcome = "error"

\* C8: every item of a result, every retrieved row and every row handed to
\* the completion service belongs to the owner the search was issued for.
OwnedByRequester(d) ==
  \E u \in users : u.email = request.user_email /\ u.id = d.user_id

OwnerIsolation ==
  /\ \A r \in 1..Len(response.results) :
       \A j \in 1..Len(response.results[r].relevant_documents) :
         OwnedByRequester(response.results[r].relevant_documents[j])
  /\ \A i \in 1..Len(retrieved) :
       \A j \in 1..Len(retrieved[i].docs) : OwnedByRequester(retrieved[i].docs[j])
  /\ \A c \in 1..Len(context) :
       \A j \in 1..Len(context[c]) : OwnedByRequester(context[c][j])

\* alice's query also matches bob's note, and bob's note is near the query
OwnerIsolationWitness ==
  /\ Single /\ request.user_email = "alice" /\ request.query = Q_Ab
  /\ relevance_score(documents[5], request.query) > 0
  /\ world.sim[5] >= Threshold
  /\ retrieved[1].search_type = "hybrid" /\ world.semFail = "none"
  /\ response.outcome = "ok"
  /\ Len(Items) >= 2
  /\ Len(context) = 1 /\ Len(context[1]) >= 2

\* C9: a request with a limit that is not positive is rejected with a
\* validation error before any external call and returns no result.
NonPositiveLimitRejected ==
  (Done /\ request.limit # <<>> /\ request.limit[1] <= 0)
    => /\ response.outcome = "error"
       /\ response.status \in 400..499
       /\ calls = <<>>
       /\ response.results = <<>>

\* C10: a request that leaves search_type out is served with the hybrid
\* strategy on every search endpoint.
DefaultStrategyIsHybrid ==
  (Single /\ request.search_type = Unspecified)
    => /\ retrieved[1].search_type = "hybrid"
       /\ response.outcome = "ok" => response.results[1].search_type = "hybrid"

\* C11: a hybrid search whose semantic stage succeeded and whose lexical stage
\* fails ends in an error; the failure is never hidden behind a successful
\* result.
LexicalFailureIsFatal ==
  (Single /\ retrieved[1].search_type = "hybrid"
     /\ semantic_search(request.user_email, request.query, retrieved[1].limit).ok
     /\ 1 \in world.lexFailAt)
    => /\ response.outcome = "error"
       /\ response.results = <<>>

\* C12: within one search call the item fetch, the embedding call, the
\* nearest-neighbour call and the completion call are each made at most once.
CallCount(c) == Len(SelectSeq(calls, LAMBDA x : x = c))

NoExternalCallRepeated ==
  Single => \A c \in {"fetch", "embed", "nn", "gen"} : CallCount(c) <= 1

\* C13: a hybrid search that fell back to the lexical stage answers with
\* search_type keyword, and each of its items carries search_type keyword and
\* its term-occurrence count as keyword_score.
StoredRow(id) == documents[CHOOSE k \in 1..Len(documents) : documents[k].id = id]

DegradedHybridReportsKeyword ==
  (Single /\ retrieved[1].search_type = "hybrid" /\ SemanticStageDown
     /\ response.outcome = "ok")
    => /\ response.results[1].search_type = "keyword"
       /\ \A j \in 1..Len(Items) :
            /\ Items[j].search_type = "keyword"
            /\ Items[j].keyword_score = relevance_score(StoredRow(Items[j].id), request.query)

\* C14: a hybrid search that is repeated for the same owner, query and limit
\* against the same stored rows and the same external responses returns the
\* same ordered list of item ids.
Ids(docs) == [j \in 1..Len(docs) |-> docs[j].id]

TopThree(docs) == [k \in 1..(IF Len(docs) < 3 THEN Len(docs) ELSE 3) |-> docs[k]]

GroundedOnTopThree ==
  /\ \A c \in 1..Len(context) :
       \E i \in 1..Len(retrieved) :
         retrieved[i].ok /\ context[c] = TopThree(retrieved[i].docs)
  /\ (Single /\ Len(context) = 1) => context[1] = TopThree(retrieved[1].docs)
  /\ (Single /\ response.outcome = "ok" /\ retrieved[1].docs # <<>>) => Len(context) = 1

GroundedOnTopThreeWitness ==
  /\ Single /\ response.outcome = "ok"
  /\ retrieved[1].limit > 3
  /\ Len(retrieved[1].docs) = 4
  /\ Len(context) = 1 /\ Len(context[1]) = 3
  /\ \A k \in 1..3 : context[1][k].id = retrieved[1].docs[k].id
  /\ \A k \in 1..3 : context[1][k].id # retrieved[1].docs[4].id

\* C16: a search for an owner that has no row in users is answered, for every
\* search_type, with an empty item list and the apology, not with an error.
NoFault == world.semFail = "none" /\ world.lexFailAt = {} /\ ~world.genFail

UnknownOwnerIsZeroItems ==
  (Done /\ UserRows(request.user_email) = {} /\ NoFault)
    => /\ response.outcome = "ok"
       /\ \A r \in 1..Len(response.results) :
            /\ response.results[r].relevant_documents = <<>>
            /\ response.results[r].documents_found = 0
            /\ response.results[r].ai_response = Apology

\* C17: a pdf or audio row is returned by a keyword search that truncates
\* nothing exactly when its own processing stage (OCR for a pdf, transcription
\* for an audio) has completed and its extracted text holds a query token.
StageCompleted(d) ==
  IF d.document_type = "audio" THEN d.transcription_status = "completed"
  ELSE d.ocr_status = "completed"

HoldsToken(text, query) ==
  \E w \in {Split(LowerStr(query))[k] : k \in 1..Len(Split(LowerStr(query)))} :
    Contains(LowerStr(text), w)

ProcessedItemsTakePart ==
  (Single /\ retrieved[1].search_type = "keyword" /\ retrieved[1].ok
     /\ retrieved[1].limit >= Len(documents))
    => \A k \in 1..Len(documents) :
         (OwnedByRequester(documents[k]) /\ documents[k].document_type \in {"pdf", "audio"})
           => (HasId(retrieved[1].docs, documents[k].id)
                 <=> (StageCompleted(documents[k]) /\ documents[k].ocr_text # <<>>
                        /\ HoldsToken(documents[k].ocr_text, request.query)))

\* the owner's only row is the note "Budget Plan" / "Q3 budget exceeds Q2
\* budget by 10 percent", the query is "budget", the row has no embedding and
\* the hybrid search is served with every service working
BudgetScenario ==
  /\ Single /\ response.outcome = "ok" /\ NoFault
  /\ retrieved[1].search_type = "hybrid" /\ retrieved[1].limit >= 1
  /\ request.query = Q_budget
  /\ \E u \in users :
       /\ u.email = request.user_email
       /\ \A k \in 1..Len(documents) :
            documents[k].user_id = u.id
              <=> (documents[k].document_type = "note"
                     /\ documents[k].title = T_BudgetPlan
                     /\ documents[k].description = T_BudgetDesc)
       /\ \A k \in 1..Len(documents) :
            documents[k].user_id = u.id => world.sim[documents[k].id] = Absent

\* C18: in the budget scenario the item's lexical score is 2, its normalised
\* lexical score 0.02 and its combined score 0.006.
BudgetScenarioScoresTwo ==
  BudgetScenario
    => /\ Len(Items) = 1
       /\ Items[1].keyword_score = 2
       /\ normalized_keyword(Items[1].keyword_score) = 2
       /\ Items[1].semantic_score = 0
       /\ Items[1].combined_score = 6

\* C18 as amended: the title is searched too, so the lexical score is 3, the
\* normalised lexical score 0.03 and the combined score 0.009.
BudgetScenarioScoresThree ==
  BudgetScenario
    => /\ Len(Items) = 1
       /\ Items[1].keyword_score = 3
       /\ normalized_keyword(Items[1].keyword_score) = 3
       /\ Items[1].semantic_score = 0
       /\ Items[1].combined_score = 9

BudgetScenarioWitness ==
  /\ BudgetScenario
  /\ response.endpoint = "get" /\ request.user_email = "bob"
  /\ Items[1].id = 5 /\ Items[1].search_type = "keyword"
  /\ Items[1].combined_score = 9
  /\ calls = <<"sem_users", "embed", "nn", "lex_users", "fetch", "gen">>

Candidate(d) ==
  \/ world.sim[d.id] # Absent /\ world.sim[d.id] >= Threshold
  \/ relevance_score(d, request.query) > 0

FullCombinedScore(d) ==
  combined_score(IF world.sim[d.id] # Absent /\ world.sim[d.id] >= Threshold
                 THEN world.sim[d.id] ELSE 0,
                 relevance_score(d, request.query))

\* C20: a hybrid result has at most limit items, and no item of the owner
\* that has a semantic score at or above the threshold or a non-zero lexical
\* score is left out of it while its combined score is strictly higher than
\* that of an item in it.
HybridKeepsBestOfFullUnion ==
  (Single /\ retrieved[1].search_type = "hybrid" /\ retrieved[1].ok /\ NoFault
     /\ retrieved[1].limit >= 0)
    => /\ Len(retrieved[1].docs) <= retrieved[1].limit
       /\ \A k \in 1..Len(documents) :
            (OwnedByRequester(documents[k]) /\ Candidate(documents[k])
               /\ ~HasId(retrieved[1].docs, documents[k].id))
              => \A j \in 1..Len(retrieved[1].docs) :
                   FullCombinedScore(documents[k])
                     <= FullCombinedScore(StoredRow(retrieved[1].docs[j].id))

\* the position of a stored row in the owner's item set
Position(id) == CHOOSE k \in 1..Len(documents) : documents[k].id = id

\* row x is ranked before row y: higher lexical score, or equal score and
\* earlier in the item set
RankedBefore(x, y) ==
  \/ relevance_score(StoredRow(x), request.query) > relevance_score(StoredRow(y), request.query)
  \/ /\ relevance_score(StoredRow(x), request.query)
          = relevance_score(StoredRow(y), request.query)
     /\ Position(x) < Position(y)

\* C21: a keyword result is in descending order of lexical score, rows with
\* equal scores in the order of the owner's item set, and the truncation to
\* limit removes only rows ranked after every row that is kept.
KeywordResultStableDescending ==
  \A i \in 1..Len(retrieved) :
    (retrieved[i].search_type = "keyword" /\ retrieved[i].ok /\ retrieved[i].limit >= 0)
      => /\ \A a \in 1..Len(retrieved[i].docs) : \A b \in 1..Len(retrieved[i].docs) :
              a < b => RankedBefore(retrieved[i].docs[a].id, retrieved[i].docs[b].id)
         /\ \A k \in 1..Len(documents) :
              (OwnedByRequester(documents[k])
                 /\ relevance_score(documents[k], request.query) > 0
                 /\ ~HasId(retrieved[i].docs, documents[k].id))
                => /\ Len(retrieved[i].docs) = retrieved[i].limit
                   /\ \A a \in 1..Len(retrieved[i].docs) :
                        RankedBefore(retrieved[i].docs[a].id, documents[k].id)

\* two rows with the same score are returned, the earlier one first
KeywordTieWitness ==
  /\ Single /\ retrieved[1].search_type = "keyword" /\ retrieved[1].ok
  /\ Len(retrieved[1].docs) = 2
  /\ retrieved[1].docs[1].relevance_score = retrieved[1].docs[2].relevance_score
  /\ Position(retrieved[1].docs[1].id) < Position(retrieved[1].docs[2].id)

\* the ids of the union in order of first appearance: the rows of the
\* semantic stage, then the rows only the lexical stage returned
UnionOrder(sem, kw) ==
  Ids(sem) \o Ids(SelectSeq(kw, LAMBDA d : ~HasId(sem, d.id)))

IndexIn(ids, id) == CHOOSE k \in 1..Len(ids) : ids[k] = id

\* C22: two items of a hybrid result that have the same combined_score are
\* in order of first appearance in the union, the rows of the semantic stage
\* before the keyword-only rows.
HybridTiesInUnionOrder ==
  \A i \in 1..Len(retrieved) :
    (retrieved[i].search_type = "hybrid" /\ retrieved[i].ok)
      => LET sem == semantic_search(request.user_email, request.query, retrieved[i].limit)
             kw == search_documents(request.user_email, request.query, retrieved[i].limit,
                                    FALSE)
             order == UnionOrder(IF sem.ok THEN sem.docs ELSE <<>>, kw.docs)
             docs == retrieved[i].docs
         IN \A a \in 1..Len(docs) : \A b \in 1..Len(docs) :
              (a < b /\ docs[a].combined_score # Absent
                 /\ docs[a].combined_score = docs[b].combined_score)
                => /\ \E k \in 1..Len(order) : order[k] = docs[a].id
                   /\ \E k \in 1..Len(order) : order[k] = docs[b].id
                   /\ IndexIn(order, docs[a].id) < IndexIn(order, docs[b].id)

\* a row of the semantic stage and a keyword-only row with the same score,
\* the keyword-only row being the earlier one of the item set
HybridTieWitness ==
  /\ Single /\ retrieved[1].search_type = "hybrid" /\ retrieved[1].ok
  /\ Len(retrieved[1].docs) = 2
  /\ retrieved[1].docs[1].combined_score = retrieved[1].docs[2].combined_score
  /\ retrieved[1].docs[1].search_type = "semantic"
  /\ retrieved[1].docs[2].search_type = "keyword"
  /\ Position(retrieved[1].docs[2].id) < Position(retrieved[1].docs[1].id)

\* C23: the normalised keyword score is between 0 and 1, does not decrease
\* when the raw score grows, and is 1 for every raw score of 100 or more.
NormalizedKeywordMonotoneSaturating ==
  normalized_scores # <<>>
    => /\ \A k \in 1..2 : normalized_scores[k] \in 0..100
       /\ \A k \in 1..2 : raw_scores[k] >= 100 => normalized_scores[k] = 100
       /\ raw_scores[1] <= raw_scores[2] => normalized_scores[1] <= normalized_scores[2]

NormalizedKeywordWitness ==
  /\ raw_scores = <<99, 120>>
  /\ normalized_scores = <<99, 100>>

\* C24: in keyword mode the reported combined_score of every item is its
\* normalised keyword score min(lexical score / 100, 1.0); in semantic mode
\* it is the item's similarity.
DegenerateModesReportNormalizedScore ==
  (Single /\ response.outcome = "ok"
     /\ retrieved[1].search_type \in {"keyword", "semantic"})
    => \A j \in 1..Len(Items) :
         IF retrieved[1].search_type = "keyword"
         THEN Items[j].combined_score
                = 10 * Min(relevance_score(StoredRow(Items[j].id), request.query), 100)
         ELSE Items[j].combined_score = 10 * world.sim[Items[j].id]

\* C25: a keyword search whose query is empty or holds whitespace only
\* returns the empty list and raises no error; the request is answered with
\* no item.
NoToken(query) == \A k \in 1..Len(query) : query[k] = " "

EmptyQueryMatchesNothing ==
  (Single /\ retrieved[1].search_type = "keyword" /\ NoToken(request.query)
     /\ LexicalStageUp)
    => /\ retrieved[1].ok
       /\ retrieved[1].docs = <<>>
       /\ response.outcome = "ok"
       /\ response.results[1].relevant_documents = <<>>

\* a whitespace-only query for an owner who has searchable rows
WhitespaceQueryWitness ==
  /\ Single /\ retrieved[1].search_type = "keyword"
  /\ request.query = Q_spaces /\ request.user_email = "alice"
  /\ calls = <<"lex_users", "fetch">>
  /\ retrieved[1].ok /\ retrieved[1].docs = <<>>
  /\ response.outcome = "ok"

\* C26: every semantic_score the semantic retriever produces and fusion uses
\* lies in [0, 1] (0..100 in hundredths), whatever similarity the
\* nearest-neighbour service reported, and so does every combined_score
\* (0..1000 in thousandths).
FusedScoresWithinUnitRange ==
  \A i \in 1..Len(retrieved) :
    (retrieved[i].search_type = "hybrid" /\ retrieved[i].ok)
      => \A j \in 1..Len(retrieved[i].docs) :
           retrieved[i].docs[j].combined_score # Absent
             => /\ retrieved[i].docs[j].semantic_score \in 0..100
                /\ retrieved[i].docs[j].combined_score \in 0..1000

\* C27: the preview excerpt of a per-item summary is at most 200 characters
\* long, whatever the item and the length of its text.
PreviewAtMostTwoHundred ==
  preview # <<>> => Len(preview[1]) <= 200

\* C28: a failed send_message_to_conversation leaves the stored messages as
\* they were, so every stored user message is followed by the assistant
\* message that answers it.
UserMessageFollowedByAnswer ==
  \A i \in 1..Len(chat_messages) :
    chat_messages[i].role = "user"
      => /\ i < Len(chat_messages)
         /\ chat_messages[i + 1].role = "assistant"
         /\ chat_messages[i + 1].conversation_id = chat_messages[i].conversation_id
         /\ chat_messages[i + 1].search_query = chat_messages[i].search_query

\* C29: while the most recently opened websocket of a user is still
\* connected, websocket_connections maps the user to it, whatever connects
\* and disconnects of the same user have happened.
LatestSocket(user_id) ==
  CHOOSE s \in SocketIds :
    /\ sockets[s].user_id = user_id
    /\ \A t \in SocketIds : sockets[t].user_id = user_id => t <= s

LatestOpenSocketRegistered ==
  \A user_id \in WsUsers :
    ((\E s \in SocketIds : sockets[s].user_id = user_id)
       /\ sockets[LatestSocket(user_id)].state = "open")
      => /\ user_id \in DOMAIN websocket_connections
         /\ websocket_connections[user_id] = LatestSocket(user_id)

\* C30: every run of process_document_ocr eventually ends with the
\* document's ocr_status completed or failed, whichever of its calls failed.
OcrRunEndsCompletedOrFailed ==
  \A d \in OcrDocIds :
    (ocr_runs[d].pc = "mark_processing")
      ~> (ocr_runs[d].pc = "done" /\ OcrRow(d).ocr_status \in {"completed", "failed"})

====
